---- MODULE Spec2Model ----
(***************************************************************************)
(* FocusFlow dashboard (todoHtml3/saas-dashboard): the task-state reducer  *)
(* of useDashboardState.ts, the completion history of lib/analytics, the   *)
(* LocalStorage gateway of lib/storage and the two effects of the hook     *)
(* (hydrate on first render, persist on every state change).               *)
(*                                                                         *)
(* Time is a counter of ticks; an ISO timestamp is the tick it was taken   *)
(* at and its first ten characters (the UTC day) are tick \div TicksPerDay.*)
(* A text (title, description, name) is a sequence of tokens, a token being *)
(* either the blank " " or a piece of text with no blank at either end.    *)
(***************************************************************************)
EXTENDS Integers, Sequences, FiniteSets, TLC

VARIABLES
    state,        \* the reducer's state (PersistedState & lastDeletedTask)
    storage,      \* what localStorage holds under STORAGE_KEY
    now,          \* the clock read by new Date()
    phase,        \* where the hook is: "mount", "mount-persist", "render", "idle"
    hydratedRef,  \* hydratedRef.current
    queued,       \* the hydrate action dispatched by the effect, not yet reduced
    lastWrite,    \* outcome of the latest saveState: "none", "ok", "failed"
    calls,        \* how often loadState was called, hydrate was reduced and
                  \* an action was dispatched
    last          \* the action the reducer applied last, and whether the undo
                  \* slot held a task when it was applied

vars == <<state, storage, now, phase, hydratedRef, queued, lastWrite, calls, last>>

-----------------------------------------------------------------------------
(* Bounds of the model *)

MaxActions == 2
MaxClock == 3
MaxLoads == 2

-----------------------------------------------------------------------------
(* Time *)

TicksPerDay == 2

-----------------------------------------------------------------------------
(* Domain values: lib/types.ts *)

TaskStatus == {"todo", "in-progress", "done", "archived"}
TaskPriority == {"low", "medium", "high"}

\* null in a timestamp field, null in a string field, null in the undo slot
NoTime == -1
Null == "<null>"
NullTask == <<>>

CURRENT_VERSION == 1

DateKey(t) == t \div TicksPerDay

\* String.prototype.trim on a token sequence
RECURSIVE TrimLeft(_)
TrimLeft(s) == IF s # <<>> /\ Head(s) = " " THEN TrimLeft(Tail(s)) ELSE s

RECURSIVE TrimRight(_)
TrimRight(s) ==
    IF s # <<>> /\ s[Len(s)] = " " THEN TrimRight(SubSeq(s, 1, Len(s) - 1)) ELSE s

Trim(s) == TrimRight(TrimLeft(s))

\* Array.prototype.filter with the predicate "id differs"
RECURSIVE FilterOutId(_, _)
FilterOutId(tasks, id) ==
    IF tasks = <<>> THEN <<>>
    ELSE IF Head(tasks).id # id
         THEN <<Head(tasks)>> \o FilterOutId(Tail(tasks), id)
         ELSE FilterOutId(Tail(tasks), id)

\* Array.prototype.find with the predicate "id equals", ?? null
FindById(tasks, id) ==
    IF \E i \in 1..Len(tasks) : tasks[i].id = id
    THEN <<tasks[CHOOSE i \in 1..Len(tasks) :
                  /\ tasks[i].id = id
                  /\ \A j \in 1..(i - 1) : tasks[j].id # id]>>
    ELSE NullTask

-----------------------------------------------------------------------------
(* lib/analytics: computeCompletionHistory *)

\* the keys of byDate: the days of the tasks that have a truthy completedAt
CompletionDays(tasks) ==
    {DateKey(tasks[i].completedAt) : i \in {j \in 1..Len(tasks) : tasks[j].completedAt # NoTime}}

\* a count that takes every completed task, whatever its day
CountOnDay_anyDay(tasks, day) ==
    Cardinality({i \in 1..Len(tasks) : tasks[i].completedAt # NoTime})

CountOnDay(tasks, day) ==
    Cardinality({i \in 1..Len(tasks) :
                    tasks[i].completedAt # NoTime /\ DateKey(tasks[i].completedAt) = day})

\* the entries sorted ascending by date key
RECURSIVE SortedEntries(_, _)
SortedEntries(tasks, days) ==
    IF days = {} THEN <<>>
    ELSE LET d == CHOOSE x \in days : \A y \in days : x <= y
         IN <<[date |-> d, count |-> CountOnDay(tasks, d)]>>
                \o SortedEntries(tasks, days \ {d})

computeCompletionHistory(tasks) == SortedEntries(tasks, CompletionDays(tasks))

-----------------------------------------------------------------------------
(* lib/storage: JSON values as JSON.parse yields them.  An array element   *)
(* that is an object is the record of its fields.                          *)

JUndefined == [t |-> "undefined"]
JNull == [t |-> "null"]
JBool(b) == [t |-> "boolean", b |-> b]
JNum(n) == [t |-> "number", n |-> n]
JInfinity == [t |-> "number", inf |-> TRUE]
JStr(s) == [t |-> "string", s |-> s]
JArr(a) == [t |-> "array", a |-> a]
JObj(o) == [t |-> "object", o |-> o]

\* value.<name> of a parsed value (undefined when the property is absent)
Prop(value, name) ==
    IF value.t = "object" /\ name \in DOMAIN value.o THEN value.o[name] ELSE JUndefined

\* typeof value === "object" && value !== null: true of arrays too
isObject(value) == value.t \in {"object", "array"}

coerceArray(value) == IF value.t = "array" THEN value.a ELSE <<>>

DefaultSettings ==
    [confirmBeforeDelete |-> TRUE, enableSounds |-> FALSE,
     showOnboarding |-> TRUE, defaultProjectId |-> Null]

\* coerceSettings that falls back to all defaults as soon as one field is bad
coerceSettings_allOrNothing(value) ==
    IF value.t = "object"
       /\ Prop(value, "confirmBeforeDelete").t = "boolean"
       /\ Prop(value, "enableSounds").t = "boolean"
       /\ Prop(value, "showOnboarding").t = "boolean"
       /\ Prop(value, "defaultProjectId").t \in {"string", "null"}
    THEN [confirmBeforeDelete |-> Prop(value, "confirmBeforeDelete").b,
          enableSounds |-> Prop(value, "enableSounds").b,
          showOnboarding |-> Prop(value, "showOnboarding").b,
          defaultProjectId |-> IF Prop(value, "defaultProjectId").t = "string"
                               THEN Prop(value, "defaultProjectId").s ELSE Null]
    ELSE DefaultSettings

\* coerceSettings written with `value.field || default`
coerceSettings_orDefault(value) ==
    IF ~isObject(value) THEN DefaultSettings
    ELSE LET cbd == Prop(value, "confirmBeforeDelete")
             es  == Prop(value, "enableSounds")
             so  == Prop(value, "showOnboarding")
             dp  == Prop(value, "defaultProjectId")
         IN [confirmBeforeDelete |-> TRUE,
             enableSounds |-> IF es.t = "boolean" THEN es.b ELSE FALSE,
             showOnboarding |-> TRUE,
             defaultProjectId |-> IF dp.t = "string" THEN dp.s ELSE Null]

coerceSettings(value) ==
    IF ~isObject(value) THEN DefaultSettings
    ELSE LET cbd == Prop(value, "confirmBeforeDelete")
             es  == Prop(value, "enableSounds")
             so  == Prop(value, "showOnboarding")
             dp  == Prop(value, "defaultProjectId")
         IN [confirmBeforeDelete |-> IF cbd.t = "boolean" THEN cbd.b ELSE TRUE,
             enableSounds |-> IF es.t = "boolean" THEN es.b ELSE FALSE,
             showOnboarding |-> IF so.t = "boolean" THEN so.b ELSE TRUE,
             defaultProjectId |-> IF dp.t = "string" THEN dp.s ELSE Null]

getInitialState(t) ==
    [version |-> CURRENT_VERSION,
     tasks |-> <<[id |-> "welcome-task",
                  title |-> <<"Welcome to FocusFlow">>,
                  description |-> <<"Edit or complete this task to get a feel for the workflow.">>,
                  status |-> "todo",
                  priority |-> "medium",
                  projectId |-> "inbox",
                  dueDate |-> NoTime,
                  createdAt |-> t,
                  updatedAt |-> t,
                  completedAt |-> NoTime,
                  isPinned |-> TRUE,
                  tags |-> <<"getting-started">>]>>,
     projects |-> <<[id |-> "inbox", name |-> <<"Inbox">>, color |-> "sky", createdAt |-> t]>>,
     settings |-> [confirmBeforeDelete |-> TRUE, enableSounds |-> FALSE,
                   showOnboarding |-> TRUE, defaultProjectId |-> "inbox"],
     completionHistory |-> <<>>]

\* What the store holds under STORAGE_KEY: no item, a text JSON.parse
\* rejects, or the text of a JSON value.
NoItem == [kind |-> "missing"]
NotJson == [kind |-> "garbage"]
JsonText(value) == [kind |-> "json", value |-> value]

\* what a statement yields when it throws
Thrown == [threw |-> TRUE]

\* typeof v === "number" && Number.isFinite(v)
isFiniteNumber(v) == v.t = "number" /\ "n" \in DOMAIN v

\* The try block of loadState.  readOk = FALSE: window.localStorage or
\* getItem throws (storage disabled); JSON.parse throws on a text that is
\* no JSON.
loadStateTry(raw, readOk, t) ==
    IF ~readOk THEN Thrown
    ELSE IF raw.kind = "missing" THEN getInitialState(t)
    ELSE IF raw.kind = "garbage" THEN Thrown
    ELSE LET parsed == raw.value IN
         IF ~isObject(parsed) THEN getInitialState(t)
         ELSE LET v == Prop(parsed, "version") IN
              [version |-> IF isFiniteNumber(v) THEN v.n ELSE CURRENT_VERSION,
               tasks |-> coerceArray(Prop(parsed, "tasks")),
               projects |-> coerceArray(Prop(parsed, "projects")),
               settings |-> coerceSettings(Prop(parsed, "settings")),
               completionHistory |-> coerceArray(Prop(parsed, "completionHistory"))]

\* loadState without its catch clause
loadState_noCatch(raw, readOk, t) == loadStateTry(raw, readOk, t)

\* try { ... } catch { return getInitialState(); }
loadState(raw, readOk, t) ==
    LET r == loadStateTry(raw, readOk, t)
    IN IF r = Thrown THEN getInitialState(t) ELSE r

\* JSON.stringify of one own property of the state object
StringifyProperty(next, f) ==
    CASE f = "version" -> JNum(next.version)
      [] f = "settings" ->
            JObj([confirmBeforeDelete |-> JBool(next.settings.confirmBeforeDelete),
                  enableSounds |-> JBool(next.settings.enableSounds),
                  showOnboarding |-> JBool(next.settings.showOnboarding),
                  defaultProjectId |-> IF next.settings.defaultProjectId = Null
                                       THEN JNull ELSE JStr(next.settings.defaultProjectId)])
      [] f = "lastDeletedTask" ->
            IF next.lastDeletedTask = NullTask THEN JNull ELSE JObj(next.lastDeletedTask[1])
      [] OTHER -> JArr(next[f])

\* JSON.stringify(next): every own property of the object it is given
Stringify(next) ==
    JsonText(JObj([f \in DOMAIN next |-> StringifyProperty(next, f)]))

\* saveState without its try/catch: the exception of setItem leaves it
saveState_noCatch(old, next, writeOk) == IF writeOk THEN Stringify(next) ELSE Thrown

\* saveState(next): the new content of the store; a failed write is swallowed
saveState(old, next, writeOk) == IF writeOk THEN Stringify(next) ELSE old

-----------------------------------------------------------------------------
(* lib/analytics: computeAnalytics.  new Date() is the parameter t, and the *)
(* offset of the browser's local time from UTC, in ticks, the parameter tz. *)

\* where the browser may run: half a day behind UTC, on UTC, half a day ahead
TimeZones == {-1, 0, 1}

\* the bound of the streak loop
StreakCap == 365

\* new Date(y, m, d) of the local date of t: the instant of local midnight
startOfDay(t, tz) == ((t + tz) \div TicksPerDay) * TicksPerDay - tz

\* date.toISOString().slice(0, 10): the UTC day of the instant
toDateKey(instant) == DateKey(instant)

\* an array that holds null where the code reads a property of the element
HoldsNull(elements) == \E i \in 1..Len(elements) : elements[i] = JNull

CountStatus(tasks, statuses) ==
    Cardinality({i \in 1..Len(tasks) : tasks[i].status \in statuses})

\* activeTasks counted as every task that is not done
activeTasks_notDone(tasks) == CountStatus(tasks, TaskStatus \ {"done"})

activeTasks(tasks) == CountStatus(tasks, {"todo", "in-progress"})

\* completedTasks / totalTasks without the guard: a division by zero
completionRate_noGuard(totalTasks, completedTasks) ==
    [num |-> completedTasks, den |-> totalTasks]

\* the quotient as a fraction; 0 when there is no task
completionRate(totalTasks, completedTasks) ==
    IF totalTasks = 0 THEN [num |-> 0, den |-> 1]
    ELSE [num |-> completedTasks, den |-> totalTasks]

CompletedOn(tasks, key) ==
    Cardinality({i \in 1..Len(tasks) :
                    tasks[i].completedAt # NoTime /\ DateKey(tasks[i].completedAt) = key})

\* history.find((entry) => entry.date === todayKey)?.count ?? tasks.filter(...).length
tasksCompletedToday(tasks, history, todayKey) ==
    IF \E i \in 1..Len(history) : history[i].date = todayKey
    THEN history[CHOOSE i \in 1..Len(history) :
                    /\ history[i].date = todayKey
                    /\ \A j \in 1..(i - 1) : history[j].date # todayKey].count
    ELSE CompletedOn(tasks, todayKey)

hasCompletion(tasks, history, key) ==
    \/ \E i \in 1..Len(history) : history[i].date = key
    \/ CompletedOn(tasks, key) > 0

\* the streak loop from `offset` on; d.setDate(today.getDate() - offset) is
\* the local midnight `offset` days before today
RECURSIVE streakDays(_, _, _, _)
streakDays(tasks, history, today, offset) ==
    IF offset < StreakCap
       /\ hasCompletion(tasks, history, toDateKey(today - offset * TicksPerDay))
    THEN 1 + streakDays(tasks, history, today, offset + 1)
    ELSE 0

\* t.status of a null element, or entry.date of one, throws a TypeError
computeAnalytics(tasks, history, t, tz) ==
    IF HoldsNull(tasks) \/ HoldsNull(history) THEN Thrown
    ELSE LET today == startOfDay(t, tz)
             total == Len(tasks)
             completed == CountStatus(tasks, {"done"})
         IN [totalTasks |-> total,
             completedTasks |-> completed,
             activeTasks |-> activeTasks(tasks),
             completionRate |-> completionRate(total, completed),
             streakDays |-> streakDays(tasks, history, today, 0),
             tasksCompletedToday |-> tasksCompletedToday(tasks, history, toDateKey(today))]

-----------------------------------------------------------------------------
(* hooks/useDashboardState.ts: the reducer.  The two impure reads of a     *)
(* case, uuid() and new Date().toISOString(), are the parameters u and t.  *)

\* a ?? b on a string-or-null
Coalesce(a, b) == IF a = Null THEN b ELSE a

\* patch.<f> when the patch has the property, else the task's own value
Spread(task, patch, f) == IF f \in DOMAIN patch THEN patch[f] ELSE task[f]

\* hydrate that spreads the payload over the old state's undo slot
hydrate_keepsSlot(S, payload) ==
    [version |-> payload.version,
     tasks |-> payload.tasks,
     projects |-> payload.projects,
     settings |-> payload.settings,
     completionHistory |-> payload.completionHistory,
     lastDeletedTask |-> S.lastDeletedTask]

hydrate(S, payload) ==
    [version |-> payload.version,
     tasks |-> payload.tasks,
     projects |-> payload.projects,
     settings |-> payload.settings,
     completionHistory |-> payload.completionHistory,
     lastDeletedTask |-> NullTask]

\* create-task that takes the title as it was typed
NewTask_rawTitle(S, input, u, t) ==
    [id |-> u,
     title |-> input.title,
     description |-> Trim(input.description),
     status |-> "todo",
     priority |-> Coalesce(input.priority, "medium"),
     projectId |-> Coalesce(input.projectId, S.settings.defaultProjectId),
     dueDate |-> NoTime,
     createdAt |-> t,
     updatedAt |-> t,
     completedAt |-> NoTime,
     isPinned |-> FALSE,
     tags |-> <<>>]

\* the task built by create-task (an absent or blank description gives "")
NewTask(S, input, u, t) ==
    [id |-> u,
     title |-> Trim(input.title),
     description |-> Trim(input.description),
     status |-> "todo",
     priority |-> Coalesce(input.priority, "medium"),
     projectId |-> Coalesce(input.projectId, S.settings.defaultProjectId),
     dueDate |-> NoTime,
     createdAt |-> t,
     updatedAt |-> t,
     completedAt |-> NoTime,
     isPinned |-> FALSE,
     tags |-> <<>>]

createTask(S, input, u, t) ==
    LET tasks == <<NewTask(S, input, u, t)>> \o S.tasks
    IN [S EXCEPT !.tasks = tasks,
                 !.completionHistory = computeCompletionHistory(tasks)]

\* { ...task, updatedAt: now, ...patch }: the patch spread last
PatchedTask_patchLast(task, patch, t) ==
    [id |-> Spread(task, patch, "id"),
     title |-> Spread(task, patch, "title"),
     description |-> Spread(task, patch, "description"),
     status |-> Spread(task, patch, "status"),
     priority |-> Spread(task, patch, "priority"),
     projectId |-> Spread(task, patch, "projectId"),
     dueDate |-> Spread(task, patch, "dueDate"),
     createdAt |-> Spread(task, patch, "createdAt"),
     updatedAt |-> IF "updatedAt" \in DOMAIN patch THEN patch.updatedAt ELSE t,
     completedAt |-> Spread(task, patch, "completedAt"),
     isPinned |-> Spread(task, patch, "isPinned"),
     tags |-> Spread(task, patch, "tags")]

\* { ...task, ...patch, updatedAt: now }
PatchedTask(task, patch, t) ==
    [id |-> Spread(task, patch, "id"),
     title |-> Spread(task, patch, "title"),
     description |-> Spread(task, patch, "description"),
     status |-> Spread(task, patch, "status"),
     priority |-> Spread(task, patch, "priority"),
     projectId |-> Spread(task, patch, "projectId"),
     dueDate |-> Spread(task, patch, "dueDate"),
     createdAt |-> Spread(task, patch, "createdAt"),
     updatedAt |-> t,
     completedAt |-> Spread(task, patch, "completedAt"),
     isPinned |-> Spread(task, patch, "isPinned"),
     tags |-> Spread(task, patch, "tags")]

\* update-task that patches the task in place, so that the snapshot in the
\* undo slot changes with it
updateTask_inPlace(S, id, patch, t) ==
    LET update(task) == IF task.id = id THEN PatchedTask(task, patch, t) ELSE task
        tasks == [i \in 1..Len(S.tasks) |-> update(S.tasks[i])]
    IN [S EXCEPT !.tasks = tasks,
                 !.completionHistory = computeCompletionHistory(tasks),
                 !.lastDeletedTask = [i \in 1..Len(@) |-> update(@[i])]]

updateTask(S, id, patch, t) ==
    LET tasks == [i \in 1..Len(S.tasks) |->
                    IF S.tasks[i].id = id
                    THEN PatchedTask(S.tasks[i], patch, t)
                    ELSE S.tasks[i]]
    IN [S EXCEPT !.tasks = tasks,
                 !.completionHistory = computeCompletionHistory(tasks)]

\* delete-task that moves a copy of the task to the undo slot and leaves the
\* task in the list
deleteTask_keepsTask(S, id) ==
    [S EXCEPT !.lastDeletedTask = FindById(S.tasks, id)]

\* delete-task that fills the undo slot only when it is empty
deleteTask_keepsSlot(S, id) ==
    LET task == FindById(S.tasks, id)
        tasks == FilterOutId(S.tasks, id)
    IN [S EXCEPT !.tasks = tasks,
                 !.completionHistory = computeCompletionHistory(tasks),
                 !.lastDeletedTask = IF S.lastDeletedTask = NullTask
                                     THEN task ELSE S.lastDeletedTask]

deleteTask(S, id) ==
    LET task == FindById(S.tasks, id)
        tasks == FilterOutId(S.tasks, id)
    IN [S EXCEPT !.tasks = tasks,
                 !.completionHistory = computeCompletionHistory(tasks),
                 !.lastDeletedTask = task]

\* the completedAt of a task the bulk action touches
\* a bulk update that stamps completedAt anew whenever the status is done
BulkCompletedAt_alwaysNow(task, status, t) ==
    IF status = "done" THEN t ELSE task.completedAt

BulkCompletedAt(task, status, t) ==
    IF status = "done"
    THEN (IF task.completedAt = NoTime THEN t ELSE task.completedAt)
    ELSE task.completedAt

bulkUpdateStatus(S, ids, status, t) ==
    LET tasks == [i \in 1..Len(S.tasks) |->
                    IF S.tasks[i].id \notin ids
                    THEN S.tasks[i]
                    ELSE [S.tasks[i] EXCEPT !.status = status,
                                            !.completedAt = BulkCompletedAt(S.tasks[i], status, t),
                                            !.updatedAt = t]]
    IN [S EXCEPT !.tasks = tasks,
                 !.completionHistory = computeCompletionHistory(tasks)]

\* restore-last-deleted that leaves the task in the undo slot
restoreLastDeleted_keepsSlot(S) ==
    IF S.lastDeletedTask = NullTask THEN S
    ELSE LET tasks == S.lastDeletedTask \o S.tasks
         IN [S EXCEPT !.tasks = tasks,
                      !.completionHistory = computeCompletionHistory(tasks)]

restoreLastDeleted(S) ==
    IF S.lastDeletedTask = NullTask THEN S
    ELSE LET tasks == S.lastDeletedTask \o S.tasks
         IN [S EXCEPT !.tasks = tasks,
                      !.completionHistory = computeCompletionHistory(tasks),
                      !.lastDeletedTask = NullTask]

updateSettings(S, patch) ==
    [S EXCEPT !.settings =
        [confirmBeforeDelete |-> Spread(S.settings, patch, "confirmBeforeDelete"),
         enableSounds |-> Spread(S.settings, patch, "enableSounds"),
         showOnboarding |-> Spread(S.settings, patch, "showOnboarding"),
         defaultProjectId |-> Spread(S.settings, patch, "defaultProjectId")]]

\* create-project that puts the new project first
createProject_prepends(S, name, color, u, t) ==
    [S EXCEPT !.projects =
        <<[id |-> u, name |-> Trim(name), color |-> color, createdAt |-> t]>> \o S.projects]

createProject(S, name, color, u, t) ==
    [S EXCEPT !.projects =
        S.projects \o <<[id |-> u, name |-> Trim(name), color |-> color, createdAt |-> t]>>]

reducer(S, action, u, t) ==
    CASE action.type = "hydrate" -> hydrate(S, action.payload)
      [] action.type = "create-task" -> createTask(S, action.payload, u, t)
      [] action.type = "update-task" ->
            updateTask(S, action.payload.id, action.payload.patch, t)
      [] action.type = "delete-task" -> deleteTask(S, action.payload.id)
      [] action.type = "bulk-update-status" ->
            bulkUpdateStatus(S, action.payload.ids, action.payload.status, t)
      [] action.type = "restore-last-deleted" -> restoreLastDeleted(S)
      [] action.type = "update-settings" -> updateSettings(S, action.payload)
      [] action.type = "create-project" ->
            createProject(S, action.payload.name, action.payload.color, u, t)
      [] OTHER -> S

\* a persist effect that never runs again after the first commit
ReturnsSameObject_always(S, action) == TRUE

\* The cases that return the very object `state`: React then bails out, the
\* component does not re-render and the [state] effect does not run.
ReturnsSameObject(S, action) ==
    \/ action.type = "restore-last-deleted" /\ S.lastDeletedTask = NullTask
    \/ action.type \notin {"hydrate", "create-task", "update-task", "delete-task",
                           "bulk-update-status", "restore-last-deleted",
                           "update-settings", "create-project"}

-----------------------------------------------------------------------------
(* Inputs the actions draw from *)

\* the random strings uuid() draws from
Ids == {"c", "d"}

\* an id no task has
GhostId == "no-such-task"

IdsOf(tasks) == {tasks[i].id : i \in 1..Len(tasks)}

\* uuid(): eight random base-36 digits, a string the state does not hold yet
uuid(S) == Ids \ (IdsOf(S.tasks) \cup IdsOf(S.projects) \cup IdsOf(S.lastDeletedTask))

\* the clock when the session starts; the previous session ended before
SessionStart == TicksPerDay

\* Tasks of a previous session
OldDone ==
    [id |-> "a", title |-> <<"Pay rent">>, description |-> <<>>,
     status |-> "done", priority |-> "low", projectId |-> "inbox",
     dueDate |-> NoTime, createdAt |-> 0, updatedAt |-> 1,
     completedAt |-> 1, isPinned |-> FALSE, tags |-> <<>>]

OldTodo ==
    [id |-> "b", title |-> <<"Call mum">>, description |-> <<>>,
     status |-> "todo", priority |-> "medium", projectId |-> "inbox",
     dueDate |-> NoTime, createdAt |-> 1, updatedAt |-> 1,
     completedAt |-> NoTime, isPinned |-> FALSE, tags |-> <<>>]

\* States a previous session ended in: two tasks, one of them done; and the
\* same after the done task was deleted.
PreviousState ==
    [version |-> CURRENT_VERSION,
     tasks |-> <<OldTodo, OldDone>>,
     projects |-> <<[id |-> "inbox", name |-> <<"Inbox">>, color |-> "sky", createdAt |-> 0]>>,
     settings |-> [confirmBeforeDelete |-> TRUE, enableSounds |-> FALSE,
                   showOnboarding |-> FALSE, defaultProjectId |-> "inbox"],
     completionHistory |-> <<[date |-> 0, count |-> 1]>>,
     lastDeletedTask |-> NullTask]

PreviousStateAfterDelete ==
    [PreviousState EXCEPT !.tasks = <<OldTodo>>,
                          !.completionHistory = <<>>,
                          !.lastDeletedTask = <<OldDone>>]

SessionStartStorage ==
    {NoItem, Stringify(PreviousState), Stringify(PreviousStateAfterDelete)}

\* createTask as the composer calls it
CreateTaskInputs ==
    {[title |-> <<" ", "Buy milk", " ">>, description |-> <<>>,
      priority |-> Null, projectId |-> Null]}

\* handleComplete's two patches, and a Partial<Task> of other fields
TaskPatches(t) ==
    {[status |-> "done", completedAt |-> t],
     [status |-> "todo", completedAt |-> NoTime],
     [id |-> "b", title |-> <<"Renamed">>, updatedAt |-> 0]}

BulkStatuses == TaskStatus

SettingsPatches == {[showOnboarding |-> FALSE], [defaultProjectId |-> Null]}

-----------------------------------------------------------------------------
(* hooks/useDashboardState.ts: the hook *)

NoCalls == [loads |-> 0, hydrates |-> 0, dispatches |-> 0]
NoAction == [type |-> "none", held |-> FALSE]

\* useReducer's initializer: { ...getInitialState(), lastDeletedTask: null }
initializer(t) ==
    LET s == getInitialState(t)
    IN [version |-> s.version,
        tasks |-> s.tasks,
        projects |-> s.projects,
        settings |-> s.settings,
        completionHistory |-> s.completionHistory,
        lastDeletedTask |-> NullTask]

\* The session starts: the first render has the initializer's state, and the
\* store holds one of `stores`.
Start(stores) ==
    /\ now = SessionStart
    /\ storage \in stores
    /\ state = initializer(SessionStart)
    /\ phase = "mount"
    /\ hydratedRef = FALSE
    /\ queued = <<>>
    /\ lastWrite = "none"
    /\ calls = NoCalls
    /\ last = NoAction

\* a hydrate effect without its guard
AlreadyHydrated_never(ref) == FALSE

\* `if (hydratedRef.current) return;`
AlreadyHydrated(ref) == ref

\* a hydrate effect declared after the persist effect: the state of the first
\* render is saved before the store is read
HydrateEffect_afterPersist ==
    /\ phase = "mount"
    /\ storage' = saveState(storage, state, TRUE)
    /\ lastWrite' = "ok"
    /\ queued' = <<[type |-> "hydrate", payload |-> loadState(storage', TRUE, now)]>>
    /\ hydratedRef' = TRUE
    /\ calls' = [calls EXCEPT !.loads = @ + 1]
    /\ phase' = "mount-persist"
    /\ UNCHANGED <<state, now, last>>

\* The hydrate effect.  It runs first among the effects of the first commit
\* (phase "mount"); its body may be invoked again later (phase "idle").
HydrateEffect ==
    /\ phase \in {"mount", "idle"}
    /\ IF AlreadyHydrated(hydratedRef)
       THEN UNCHANGED <<hydratedRef, queued, phase, calls>>
       ELSE /\ calls.loads < MaxLoads
            /\ \E readOk \in BOOLEAN :
                queued' = <<[type |-> "hydrate",
                             payload |-> loadState(storage, readOk, now)]>>
            /\ hydratedRef' = TRUE
            /\ calls' = [calls EXCEPT !.loads = @ + 1]
            /\ phase' = IF phase = "mount" THEN "mount-persist" ELSE "render"
    /\ UNCHANGED <<state, storage, now, lastWrite, last>>

\* the analytics memo of a render of state S: computeAnalytics(S.tasks,
\* S.completionHistory) throws
RenderThrows(S) == HoldsNull(S.tasks) \/ HoldsNull(S.completionHistory)

\* The persist effect, run for the state S of the render that scheduled it;
\* c is the call count so far.
Persist(S, c) ==
    \E writeOk \in BOOLEAN :
        /\ storage' = saveState(storage, S, writeOk)
        /\ lastWrite' = IF writeOk THEN "ok" ELSE "failed"
        /\ calls' = c

\* The persist effect of the first commit: it runs after the hydrate effect,
\* before the render that reduces the dispatched hydrate action.
PersistEffect ==
    /\ phase = "mount-persist"
    /\ Persist(state, calls)
    /\ phase' = "render"
    /\ UNCHANGED <<state, now, hydratedRef, queued, last>>

\* The render that reduces the dispatched hydrate action, and its persist effect.
\* When computeAnalytics throws in that render, React has no error boundary
\* to hand the error to: it unmounts the tree, nothing is committed and no
\* effect runs (phase "crashed").
RenderHydrate ==
    /\ phase = "render"
    /\ queued # <<>>
    /\ queued' = <<>>
    /\ LET S == reducer(state, queued[1], "", now)
       IN IF RenderThrows(S)
          THEN /\ phase' = "crashed"
               /\ UNCHANGED <<state, storage, lastWrite, calls, last>>
          ELSE /\ state' = S
               /\ last' = [type |-> "hydrate", held |-> state.lastDeletedTask # NullTask]
               /\ Persist(state', [calls EXCEPT !.hydrates = @ + 1])
               /\ phase' = "idle"
    /\ UNCHANGED <<now, hydratedRef>>

\* dispatch(action) from an event handler: the render that reduces it and,
\* unless the reducer returned the same object, the persist effect.  The
\* handlers exist once the effects of the first commit have run.
Dispatch(action, u) ==
    /\ phase = "idle"
    /\ calls.dispatches < MaxActions
    /\ state' = reducer(state, action, u, now)
    /\ last' = [type |-> action.type, held |-> state.lastDeletedTask # NullTask]
    /\ LET c == [calls EXCEPT !.dispatches = @ + 1]
       IN IF ReturnsSameObject(state, action)
          THEN calls' = c /\ UNCHANGED <<storage, lastWrite>>
          ELSE Persist(state', c)
    /\ UNCHANGED <<now, phase, hydratedRef, queued>>

CreateTask(inputs) ==
    \E input \in inputs, u \in uuid(state) :
        Dispatch([type |-> "create-task", payload |-> input], u)

UpdateTask(patches) ==
    \E id \in IdsOf(state.tasks) \cup {GhostId}, patch \in patches :
        Dispatch([type |-> "update-task", payload |-> [id |-> id, patch |-> patch]], "")

DeleteTask ==
    \E id \in IdsOf(state.tasks) \cup {GhostId} :
        Dispatch([type |-> "delete-task", payload |-> [id |-> id]], "")

BulkUpdateStatus(statuses) ==
    \E ids \in SUBSET IdsOf(state.tasks) \cup {{GhostId}}, status \in statuses :
        Dispatch([type |-> "bulk-update-status",
                  payload |-> [ids |-> ids, status |-> status]], "")

RestoreLastDeleted ==
    Dispatch([type |-> "restore-last-deleted"], "")

UpdateSettings(patches) ==
    \E patch \in patches :
        Dispatch([type |-> "update-settings", payload |-> patch], "")

CreateProject ==
    \E u \in uuid(state) :
        Dispatch([type |-> "create-project",
                  payload |-> [name |-> <<" ", "Work">>, color |-> "violet"]], u)

\* updateTask called with the id of the task that was deleted last
UpdateDeletedTask(patches) ==
    \E id \in IdsOf(state.lastDeletedTask), patch \in patches :
        Dispatch([type |-> "update-task", payload |-> [id |-> id, patch |-> patch]], "")

\* The page is loaded again: the component mounts anew on the store as the
\* session before left it.  `last` keeps what that session did last, whether
\* its write succeeded and what its undo slot held.
Reload ==
    /\ phase = "idle"
    /\ calls.loads < MaxLoads
    /\ state' = initializer(now)
    /\ phase' = "mount"
    /\ hydratedRef' = FALSE
    /\ queued' = <<>>
    /\ lastWrite' = "none"
    /\ last' = [type |-> "reload", held |-> FALSE, after |-> last.type,
                saved |-> lastWrite = "ok", slot |-> state.lastDeletedTask]
    /\ UNCHANGED <<storage, now, calls>>

\* dispatch of an action whose type the reducer has no case for
Unrecognized ==
    Dispatch([type |-> "rename-project"], "")

\* Time passes between two events (the effects and the render of the first
\* commit run back to back).
Tick ==
    /\ phase = "idle"
    /\ now < MaxClock
    /\ now' = now + 1
    /\ UNCHANGED <<state, storage, phase, hydratedRef, queued, lastWrite, calls, last>>

-----------------------------------------------------------------------------
(* Spec: one session of the dashboard, started on an empty store or on the *)
(* store a previous session left, and the task actions of the hook.        *)

Init == Start(SessionStartStorage)

Next ==
    \/ HydrateEffect
    \/ PersistEffect
    \/ RenderHydrate
    \/ CreateTask(CreateTaskInputs)
    \/ UpdateTask(TaskPatches(now))
    \/ DeleteTask
    \/ BulkUpdateStatus(BulkStatuses)
    \/ RestoreLastDeleted
    \/ UpdateSettings(SettingsPatches)
    \/ CreateProject
    \/ Tick

Spec == Init /\ [][Next]_vars

-----------------------------------------------------------------------------
(* LoadSpec: the start of a session on a store that holds anything at all: *)
(* no item, a text that is no JSON, a JSON value that is no object, or an  *)
(* object whose fields are of any type.                                    *)

\* a stored task whose completedAt and status disagree and whose title is empty
MalformedTask == [OldDone EXCEPT !.status = "todo", !.title = <<>>]

InboxProject == [id |-> "inbox", name |-> <<"Inbox">>, color |-> "sky", createdAt |-> 0]

StoredVersions == {JUndefined, JNum(CURRENT_VERSION), JNum(CURRENT_VERSION + 1), JStr("1"), JInfinity}

StoredTasks ==
    {JUndefined, JStr("tasks"), JArr(<<>>), JArr(<<OldTodo, OldDone>>),
     JArr(<<MalformedTask>>), JArr(<<OldDone, OldDone>>)}

StoredProjects == {JNull, JArr(<<InboxProject>>)}

StoredSettings ==
    {JUndefined,
     JArr(<<>>),
     JObj([confirmBeforeDelete |-> JBool(FALSE), enableSounds |-> JBool(TRUE),
           showOnboarding |-> JBool(FALSE), defaultProjectId |-> JStr("inbox")]),
     JObj([confirmBeforeDelete |-> JBool(FALSE), enableSounds |-> JStr("yes"),
           showOnboarding |-> JBool(FALSE), defaultProjectId |-> JNum(3)])}

StoredHistories == {JNum(0), JArr(<<>>), JArr(<<[date |-> 0, count |-> 1]>>)}

StoredObjects ==
    {JObj([version |-> v, tasks |-> ts, projects |-> ps, settings |-> st,
           completionHistory |-> h]) :
        v \in StoredVersions, ts \in StoredTasks, ps \in StoredProjects,
        st \in StoredSettings, h \in StoredHistories}

StoredBlobs ==
    {NoItem, NotJson}
        \cup {JsonText(v) : v \in {JNull, JNum(7), JStr("x"), JArr(<<>>), JObj(<<>>)}}
        \cup {JsonText(o) : o \in StoredObjects}

LoadInit == Start(StoredBlobs)

LoadNext ==
    \/ HydrateEffect
    \/ PersistEffect
    \/ RenderHydrate

LoadSpec == LoadInit /\ [][LoadNext]_vars

-----------------------------------------------------------------------------
(* EngineSpec: a session in which createTask, updateTask and deleteTask are *)
(* called as the hook exposes them, with any CreateTaskInput; the store of  *)
(* the previous session may also carry a history its tasks do not explain.  *)

\* a blob whose done task was taken out without its history entry
StaleHistoryState == [PreviousState EXCEPT !.tasks = <<OldTodo>>]

EngineStartStorage == SessionStartStorage \cup {Stringify(StaleHistoryState)}

\* actions.createTask(input): a title with blanks around it, a full input,
\* a title of blanks only
EngineCreateInputs ==
    CreateTaskInputs
        \cup {[title |-> <<"Ship">>, description |-> <<" ", "today">>,
                priority |-> "high", projectId |-> "work"],
               [title |-> <<" ", " ">>, description |-> <<>>,
                priority |-> Null, projectId |-> Null]}

EngineInit == Start(EngineStartStorage)

EngineNext ==
    \/ HydrateEffect
    \/ PersistEffect
    \/ RenderHydrate
    \/ CreateTask(EngineCreateInputs)
    \/ UpdateTask(TaskPatches(now))
    \/ DeleteTask
    \/ Tick

EngineSpec == EngineInit /\ [][EngineNext]_vars

-----------------------------------------------------------------------------
(* SaveSpec: a session whose writes may fail, with the actions that add a  *)
(* task, take one away and bring it back.                                  *)

SaveInit == Start(SessionStartStorage)

SaveNext ==
    \/ HydrateEffect
    \/ PersistEffect
    \/ RenderHydrate
    \/ CreateTask(CreateTaskInputs)
    \/ DeleteTask
    \/ RestoreLastDeleted
    \/ Tick

SaveSpec == SaveInit /\ [][SaveNext]_vars

-----------------------------------------------------------------------------
(* BulkSpec: a session in which the status of several tasks is set at once, *)
(* again and again as time passes.                                          *)

BulkInit == Start(SessionStartStorage)

BulkNext ==
    \/ HydrateEffect
    \/ PersistEffect
    \/ RenderHydrate
    \/ BulkUpdateStatus(BulkStatuses)
    \/ Tick

BulkSpec == BulkInit /\ [][BulkNext]_vars

-----------------------------------------------------------------------------
(* PatchSpec: a session with every task action, where updateTask is called *)
(* with patches of the time fields too (Partial<Task> admits every field). *)

\* { title } and { createdAt }, the latter a time after the call
ClockPatches(t) == {[title |-> <<"Renamed">>], [createdAt |-> t + 1]}

PatchInit == Start(SessionStartStorage)

PatchNext ==
    \/ HydrateEffect
    \/ PersistEffect
    \/ RenderHydrate
    \/ CreateTask(CreateTaskInputs)
    \/ UpdateTask(ClockPatches(now))
    \/ BulkUpdateStatus(BulkStatuses)
    \/ DeleteTask
    \/ RestoreLastDeleted
    \/ Tick

PatchSpec == PatchInit /\ [][PatchNext]_vars

-----------------------------------------------------------------------------
(* SettingsSpec: a session in which settings are patched and projects are  *)
(* made, next to deletions that fill the undo slot.                        *)

SettingsInit == Start(SessionStartStorage)

SettingsNext ==
    \/ HydrateEffect
    \/ PersistEffect
    \/ RenderHydrate
    \/ UpdateSettings(SettingsPatches)
    \/ CreateProject
    \/ DeleteTask
    \/ Tick

SettingsSpec == SettingsInit /\ [][SettingsNext]_vars

-----------------------------------------------------------------------------
(* UntypedSpec: a session started on a store that may hold null where a    *)
(* task should be, in which actions of an unknown type are dispatched.     *)

\* '{"version":1,"tasks":[null],"projects":[...],"settings":{...},"completionHistory":[]}'
NullTaskBlob ==
    JsonText(JObj([version |-> JNum(CURRENT_VERSION),
                   tasks |-> JArr(<<JNull>>),
                   projects |-> JArr(PreviousState.projects),
                   settings |-> JUndefined,
                   completionHistory |-> JArr(<<>>)]))

UntypedInit == Start(SessionStartStorage \cup {NullTaskBlob})

UntypedNext ==
    \/ HydrateEffect
    \/ PersistEffect
    \/ RenderHydrate
    \/ Unrecognized
    \/ DeleteTask
    \/ Tick

UntypedSpec == UntypedInit /\ [][UntypedNext]_vars

-----------------------------------------------------------------------------
(* FocusList, storage.js and app.js: loadTodos at app boot.  TodoSpec      *)
(* starts the app on whatever the key "focuslist.todos.v1" may hold; state *)
(* holds the todos and the storageError of the app, phase its position.    *)

\* the item holds the empty string
EmptyText == [kind |-> "empty"]

\* Boolean(value), which is also the test of `value || ...`
Truthy(value) ==
    CASE value.t \in {"undefined", "null"} -> FALSE
      [] value.t = "boolean" -> value.b
      [] value.t = "number" -> ("inf" \in DOMAIN value) \/ value.n # 0
      [] value.t = "string" -> value.s # ""
      [] OTHER -> TRUE

\* new Date(t).toISOString(): the text of the instant t
toISOString(t) == "T" \o ToString(t)

\* generateId() of the i-th element: a timestamp and six random digits
generateId(i) == "todo_" \o ToString(i)

\* the object the map callback of loadTodos builds from one stored element;
\* item.id of null throws
NormalizedTodo(item, i, t) ==
    LET id == Prop(item, "id")
        title == Prop(item, "title")
        createdAt == Prop(item, "createdAt")
        updatedAt == Prop(item, "updatedAt")
    IN [id |-> IF id.t = "string" THEN id.s ELSE generateId(i),
        title |-> IF title.t = "string" THEN title.s ELSE "",
        completed |-> Truthy(Prop(item, "completed")),
        createdAt |-> IF Truthy(createdAt) THEN createdAt ELSE JStr(toISOString(t)),
        updatedAt |-> IF Truthy(updatedAt) THEN updatedAt
                      ELSE IF Truthy(createdAt) THEN createdAt ELSE JStr(toISOString(t))]

FormatError == "Stored data had an unexpected format and was reset."
CorruptedError == "We had to reset your data because it looked corrupted."

\* The try block of loadTodos.  readOk = FALSE: getItem throws.
loadTodosTry(raw, readOk, t) ==
    IF ~readOk THEN Thrown
    ELSE IF raw.kind \in {"missing", "empty"} THEN [todos |-> <<>>, error |-> Null]
    ELSE IF raw.kind = "garbage" THEN Thrown
    ELSE LET parsed == raw.value IN
         IF parsed.t # "array" THEN [todos |-> <<>>, error |-> FormatError]
         ELSE IF HoldsNull(parsed.a) THEN Thrown
         ELSE [todos |-> [i \in 1..Len(parsed.a) |-> NormalizedTodo(parsed.a[i], i, t)],
               error |-> Null]

\* loadTodos that lets the error of its try block out
loadTodos_noCatch(raw, readOk, t) == loadTodosTry(raw, readOk, t)

loadTodos(raw, readOk, t) ==
    LET r == loadTodosTry(raw, readOk, t)
    IN IF r = Thrown THEN [todos |-> <<>>, error |-> CorruptedError] ELSE r

\* stored elements: a todo as the app saves it, older shapes of it, and
\* values that are no todo at all
StoredTodoItems ==
    {JNull,
     JNum(5),
     JObj([id |-> JStr("t1"), title |-> JStr("Buy milk"), completed |-> JBool(TRUE),
           createdAt |-> JStr(toISOString(0)), updatedAt |-> JStr(toISOString(1))]),
     JObj([id |-> JNum(7), title |-> JStr("Call mum"), completed |-> JStr("yes"),
           createdAt |-> JStr(toISOString(1))]),
     JObj([title |-> JNull, completed |-> JNum(0)])}

StoredTodoArrays ==
    {<<>>} \cup {<<a>> : a \in StoredTodoItems}
           \cup {<<a, b>> : a \in StoredTodoItems, b \in StoredTodoItems}

StoredTodoBlobs ==
    {NoItem, EmptyText, NotJson}
        \cup {JsonText(v) : v \in {JNull, JNum(7), JStr("x"), JObj(<<>>)}}
        \cup {JsonText(JArr(a)) : a \in StoredTodoArrays}

\* the module-scoped state of app.js before init()
TodoInit ==
    /\ now \in SessionStart..MaxClock
    /\ storage \in StoredTodoBlobs
    /\ state = [todos |-> <<>>, storageError |-> Null]
    /\ phase = "boot"
    /\ hydratedRef = FALSE
    /\ queued = <<>>
    /\ lastWrite = "none"
    /\ calls = NoCalls
    /\ last = NoAction

\* init(): state.todos and state.storageError take what loadTodos returns
LoadTodos ==
    /\ phase = "boot"
    /\ \E readOk \in BOOLEAN :
          LET r == loadTodos(storage, readOk, now)
          IN /\ state' = IF r = Thrown THEN state
                         ELSE [todos |-> r.todos, storageError |-> r.error]
             /\ phase' = IF r = Thrown THEN "crashed" ELSE "ready"
             /\ last' = [type |-> "load-todos", held |-> ~readOk]
    /\ calls' = [calls EXCEPT !.loads = @ + 1]
    /\ UNCHANGED <<storage, now, hydratedRef, queued, lastWrite>>

TodoNext == LoadTodos

TodoSpec == TodoInit /\ [][TodoNext]_vars

-----------------------------------------------------------------------------
(* SlotSpec: a session in which a task is deleted and the other actions    *)
(* follow while the undo slot holds it.                                    *)

SlotInit == Start(SessionStartStorage)

SlotNext ==
    \/ HydrateEffect
    \/ PersistEffect
    \/ RenderHydrate
    \/ DeleteTask
    \/ CreateTask(CreateTaskInputs)
    \/ UpdateDeletedTask(TaskPatches(now))
    \/ BulkUpdateStatus({"done"})
    \/ UpdateSettings(SettingsPatches)
    \/ CreateProject
    \/ Tick

SlotSpec == SlotInit /\ [][SlotNext]_vars

-----------------------------------------------------------------------------
(* ResumeSpec: a session started on the store a previous session left,     *)
(* never on an empty one.                                                  *)

ResumeInit == Start(SessionStartStorage \ {NoItem})

ResumeNext ==
    \/ HydrateEffect
    \/ PersistEffect
    \/ RenderHydrate
    \/ CreateTask(CreateTaskInputs)
    \/ DeleteTask
    \/ RestoreLastDeleted
    \/ Tick

ResumeSpec == ResumeInit /\ [][ResumeNext]_vars

-----------------------------------------------------------------------------
(* ReloadSpec: sessions that follow one another on the same store, with    *)
(* deletions and restores.                                                 *)

ReloadInit == Start(SessionStartStorage)

ReloadNext ==
    \/ HydrateEffect
    \/ PersistEffect
    \/ RenderHydrate
    \/ DeleteTask
    \/ RestoreLastDeleted
    \/ Reload
    \/ Tick

ReloadSpec == ReloadInit /\ [][ReloadNext]_vars

-----------------------------------------------------------------------------
(* The claims *)

CompletedIffDone(tasks) ==
    \A i \in 1..Len(tasks) :
        (tasks[i].completedAt # NoTime) <=> (tasks[i].status = "done")

\* seq without its i-th element
Without(seq, i) == SubSeq(seq, 1, i - 1) \o SubSeq(seq, i + 1, Len(seq))

\* the first position of a task with this id
FirstWithId(tasks, id) ==
    CHOOSE i \in 1..Len(tasks) :
        tasks[i].id = id /\ \A j \in 1..(i - 1) : tasks[j].id # id

PersistedKeys == {"version", "tasks", "projects", "settings", "completionHistory"}

IsArray(x) == DOMAIN x = 1..Len(x)

IsPersistedState(p) ==
    /\ DOMAIN p = PersistedKeys
    /\ p.version \in Int
    /\ IsArray(p.tasks)
    /\ IsArray(p.projects)
    /\ IsArray(p.completionHistory)
    /\ DOMAIN p.settings =
          {"confirmBeforeDelete", "enableSounds", "showOnboarding", "defaultProjectId"}
    /\ p.settings.confirmBeforeDelete \in BOOLEAN
    /\ p.settings.enableSounds \in BOOLEAN
    /\ p.settings.showOnboarding \in BOOLEAN
    /\ p.settings.defaultProjectId \in STRING

\* C1: in every reachable state every task has completedAt non-null exactly
\* when its status is done (so a done task that bulk-update-status moves to
\* another status has its completedAt cleared).
C1_CompletedAtIffDone == CompletedIffDone(state.tasks)

\* C2: once the session is hydrated, completionHistory is
\* computeCompletionHistory of the task list, whatever loadState returned.
C2_HistoryIsDerived ==
    calls.hydrates >= 1 =>
        state.completionHistory = computeCompletionHistory(state.tasks)

\* C3: for every task of the state, deleting it by its id and restoring at
\* once gives a list that starts with that very task, continues with the
\* other tasks in their order, and an empty undo slot.
C3_DeleteThenRestore ==
    \A i \in 1..Len(state.tasks) :
        LET R == restoreLastDeleted(deleteTask(state, state.tasks[i].id))
        IN /\ R.tasks # <<>>
           /\ Head(R.tasks) = state.tasks[i]
           /\ Tail(R.tasks) = Without(state.tasks, i)
           /\ R.lastDeletedTask = NullTask

\* C4: deleting a present id removes the task and leaves exactly it in the
\* undo slot, whatever the slot held; a restore then brings back that task
\* and nothing else.
C4_DeleteOverwritesSlot ==
    /\ \A id \in IdsOf(state.tasks) :
        LET B == state.tasks[FirstWithId(state.tasks, id)]
            D == deleteTask(state, id)
            R == restoreLastDeleted(D)
        IN /\ id \notin IdsOf(D.tasks)
           /\ D.lastDeletedTask = <<B>>
           /\ R.tasks = <<B>> \o D.tasks
           /\ R.lastDeletedTask = NullTask
    /\ (last.type = "delete-task" /\ state.lastDeletedTask # NullTask) =>
           /\ Len(state.lastDeletedTask) = 1
           /\ state.lastDeletedTask[1].id \notin IdsOf(state.tasks)

\* two deletes of present tasks in a row: the second found the slot filled
C4_Witness ==
    /\ last.type = "delete-task"
    /\ last.held
    /\ state.lastDeletedTask # NullTask

\* C5: restore-last-deleted on an empty undo slot returns the state as it is,
\* so restoring twice in a row gives what restoring once gives.
C5_RestoreOnEmptySlot ==
    LET R == restoreLastDeleted(state)
    IN /\ state.lastDeletedTask = NullTask => R = state
       /\ R.lastDeletedTask = NullTask
       /\ restoreLastDeleted(R) = R

\* a restore was dispatched while the slot was empty
C5_Witness ==
    /\ last.type = "restore-last-deleted"
    /\ ~last.held
    /\ state.lastDeletedTask = NullTask

\* C6: a blob this session wrote never carries the content of the undo slot.
C6_UndoSlotNotPersisted ==
    lastWrite = "ok" =>
        Prop(storage.value, "lastDeletedTask").t \in {"undefined", "null"}

\* C7: the hydrate action gives a state whose version, tasks, projects,
\* settings and completionHistory are the payload's and whose undo slot is
\* empty, whatever the state before held.
C7_HydrateReplaces ==
    /\ \A readOk \in BOOLEAN :
        LET payload == loadState(storage, readOk, now)
            H == reducer(state, [type |-> "hydrate", payload |-> payload], "", now)
        IN H = [version |-> payload.version,
                tasks |-> payload.tasks,
                projects |-> payload.projects,
                settings |-> payload.settings,
                completionHistory |-> payload.completionHistory,
                lastDeletedTask |-> NullTask]
    /\ last.type = "hydrate" => state.lastDeletedTask = NullTask

\* the session was hydrated from the previous session's blob, which replaced
\* the initializer's task, settings and history
C7_Witness ==
    /\ last.type = "hydrate"
    /\ state.tasks = PreviousState.tasks
    /\ state.settings = PreviousState.settings
    /\ state.completionHistory = PreviousState.completionHistory
    /\ state.lastDeletedTask = NullTask

\* C8: in a session loadState is called once and one hydrate action is
\* reduced; no action is dispatched, and the state is the initializer's,
\* until that hydrate action has been reduced.
C8_HydrateOnce ==
    /\ calls.loads <= 1
    /\ calls.hydrates <= calls.loads
    /\ phase = "idle" => calls.loads = 1 /\ calls.hydrates = 1
    /\ calls.hydrates = 0 =>
          /\ calls.dispatches = 0
          /\ last = NoAction
          /\ state = initializer(SessionStart)

\* actions were dispatched in a session that loaded and hydrated once
C8_Witness ==
    /\ phase = "idle"
    /\ calls.loads = 1
    /\ calls.hydrates = 1
    /\ calls.dispatches > 0

\* C9: every change of the state is followed by a saveState of the new state:
\* whenever the latest write succeeded, the store holds the serialization
\* of the current state and nothing of an earlier blob.
C9_StoreFollowsState ==
    /\ phase \in {"render", "idle"} => lastWrite # "none"
    /\ (phase \in {"render", "idle"} /\ lastWrite = "ok") => storage = Stringify(state)

\* several actions in a row, the last write succeeded
C9_Witness ==
    /\ phase = "idle"
    /\ calls.dispatches >= 2
    /\ last.type \in {"create-task", "update-task", "delete-task", "bulk-update-status"}
    /\ lastWrite = "ok"
    /\ storage = Stringify(state)

\* C10: whatever the store holds and whether or not reading it throws,
\* loadState returns a PersistedState and never raises.
C10_LoadNeverRaises ==
    \A readOk \in BOOLEAN :
        LET p == loadState(storage, readOk, now)
        IN p # Thrown /\ IsPersistedState(p)

\* loadState was called on a text that is no JSON and returned the first-run state
C10_Witness ==
    /\ storage = NotJson
    /\ calls.loads = 1
    /\ queued # <<>>
    /\ queued[1].payload = getInitialState(now)

\* the store holds no item, a text that is no JSON, or a JSON value that is
\* no object of fields
WrongTopLevelShape(raw) ==
    \/ raw.kind \in {"missing", "garbage"}
    \/ raw.kind = "json" /\ raw.value.t # "object"

\* getInitialState's shape: the current version, one default project, at most
\* one sample task, onboarding enabled, an empty history
InitialShape(p) ==
    /\ p.version = CURRENT_VERSION
    /\ Len(p.projects) = 1
    /\ Len(p.tasks) <= 1
    /\ p.settings.showOnboarding
    /\ p.settings.defaultProjectId = p.projects[1].id
    /\ p.completionHistory = <<>>

\* C11: when the store holds no item, a text that is no JSON or a value that
\* is no object of fields, what loadState returned has getInitialState's shape.
C11_CorruptGivesInitialState ==
    (queued # <<>> /\ WrongTopLevelShape(storage)) =>
        InitialShape(queued[1].payload)

WellFormedTask(task) ==
    /\ task.id # ""
    /\ task.title # <<>>
    /\ task.status \in TaskStatus
    /\ task.priority \in TaskPriority
    /\ (task.completedAt # NoTime) <=> (task.status = "done")

\* C12: every task of the state loadState returned is a well-formed Task.
C12_LoadedTasksWellFormed ==
    queued # <<>> =>
        \A i \in 1..Len(queued[1].payload.tasks) :
            WellFormedTask(queued[1].payload.tasks[i])

\* the stored settings field when it has the type, else the default
StoredOr(settings, name, types, default) ==
    IF settings.t = "object" /\ name \in DOMAIN settings.o /\ settings.o[name].t \in types
    THEN (CASE settings.o[name].t = "boolean" -> settings.o[name].b
            [] settings.o[name].t = "string" -> settings.o[name].s
            [] OTHER -> Null)
    ELSE default

\* C13: for a stored object, loadState gives the empty sequence for each of
\* tasks, projects and completionHistory that is no array, and for each
\* settings field the stored value when it has the right type and else its
\* default (true, false, true, null), whatever the other fields are.
C13_FieldLevelCoercion ==
    (storage.kind = "json" /\ storage.value.t = "object") =>
        LET p == loadState(storage, TRUE, now)
            stored == storage.value.o
            st == Prop(storage.value, "settings")
        IN /\ \A f \in {"tasks", "projects", "completionHistory"} :
                p[f] = IF f \in DOMAIN stored /\ stored[f].t = "array"
                       THEN stored[f].a ELSE <<>>
           /\ p.settings.confirmBeforeDelete =
                  StoredOr(st, "confirmBeforeDelete", {"boolean"}, TRUE)
           /\ p.settings.enableSounds = StoredOr(st, "enableSounds", {"boolean"}, FALSE)
           /\ p.settings.showOnboarding = StoredOr(st, "showOnboarding", {"boolean"}, TRUE)
           /\ p.settings.defaultProjectId =
                  StoredOr(st, "defaultProjectId", {"string", "null"}, Null)

\* loadState was called on an object whose tasks are no array and whose
\* settings have two fields of a wrong type next to two good ones
C13_Witness ==
    /\ queued # <<>>
    /\ storage.kind = "json"
    /\ Prop(storage.value, "tasks") = JStr("tasks")
    /\ Prop(Prop(storage.value, "settings"), "enableSounds") = JStr("yes")
    /\ queued[1].payload.tasks = <<>>
    /\ queued[1].payload.settings =
          [confirmBeforeDelete |-> FALSE, enableSounds |-> FALSE,
           showOnboarding |-> FALSE, defaultProjectId |-> Null]

\* C14: the state loadState returned carries the current version when the
\* stored version is missing or is not the version this code knows.
C14_UnknownVersionIsCurrent ==
    queued # <<>> => queued[1].payload.version = CURRENT_VERSION

\* the PersistedState of a hook state: the state without its undo slot
PersistedPart(S) ==
    [version |-> S.version,
     tasks |-> S.tasks,
     projects |-> S.projects,
     settings |-> S.settings,
     completionHistory |-> S.completionHistory]

\* C15: saveState of a PersistedState followed, when the write succeeded, by
\* loadState returns a value equal to that PersistedState; so after a
\* successful write of the hook, loadState returns the state it holds.
C15_RoundTrip ==
    LET S == PersistedPart(state)
    IN /\ loadState(saveState(storage, S, TRUE), TRUE, now) = S
       /\ (phase \in {"render", "idle"} /\ lastWrite = "ok") =>
              loadState(storage, TRUE, now) = S

\* a state of well-formed tasks, with settings that are not the defaults,
\* was written after an action
C15_Witness ==
    /\ phase = "idle"
    /\ lastWrite = "ok"
    /\ calls.dispatches >= 1
    /\ Len(state.tasks) >= 2
    /\ \A i \in 1..Len(state.tasks) : WellFormedTask(state.tasks[i])
    /\ ~state.settings.showOnboarding
    /\ loadState(storage, TRUE, now) = PersistedPart(state)

\* a step in which the persist effect runs: after the first commit, after the
\* render of the hydrate action, after the render of a dispatched action
\* unless the reducer returned the state object itself
SaveStep ==
    \/ phase = "mount-persist" /\ phase' = "render"
    \/ phase = "render" /\ phase' = "idle"
    \/ /\ calls'.dispatches = calls.dispatches + 1
       /\ ~(last'.type = "restore-last-deleted" /\ ~last'.held)

\* what the reducer makes of the state for the actions of SaveSpec
DispatchResults(S, t) ==
    {reducer(S, [type |-> "create-task", payload |-> input], u, t) :
        input \in CreateTaskInputs, u \in uuid(S)}
    \cup {reducer(S, [type |-> "delete-task", payload |-> [id |-> id]], "", t) :
        id \in IdsOf(S.tasks) \cup {GhostId}}
    \cup {reducer(S, [type |-> "restore-last-deleted"], "", t)}

\* C16: no exception leaves saveState; a write that fails leaves the store
\* as it was and the state as the reducer made it, nothing writes again until
\* the next change of the state, and the save of that change, when it
\* succeeds, stores the state of that moment.
C16_WriteFailureSwallowed ==
    [][/\ storage' # Thrown
       /\ (SaveStep /\ lastWrite' = "failed") => storage' = storage
       /\ ~SaveStep => (storage' = storage /\ lastWrite' = lastWrite)
       /\ (SaveStep /\ lastWrite = "failed" /\ lastWrite' = "ok") =>
              storage' = Stringify(state')
       /\ (calls'.dispatches = calls.dispatches + 1 /\ lastWrite' = "failed") =>
              state' \in DispatchResults(state, now)
       /\ (calls'.dispatches = calls.dispatches /\ calls'.hydrates = calls.hydrates) =>
              state' = state]_vars

\* the write after a create-task failed: the task is in the state and not
\* in the store
C16_Witness ==
    /\ phase = "idle"
    /\ lastWrite = "failed"
    /\ last.type = "create-task"
    /\ Head(state.tasks).title = <<"Buy milk">>
    /\ storage # Stringify(state)

\* C17: createTask with a title that is empty after trimming adds no task:
\* no state holds a task with an empty title.
C17_NoEmptyTitle ==
    \A i \in 1..Len(state.tasks) : state.tasks[i].title # <<>>

\* text is typed with blanks before and after it removed, and nothing else
IsTrimOf(text, typed) ==
    /\ text # <<>>
    /\ Head(text) # " "
    /\ text[Len(text)] # " "
    /\ \E i \in 1..Len(typed) :
          /\ SubSeq(typed, i, i + Len(text) - 1) = text
          /\ \A j \in 1..Len(typed) :
                (j < i \/ j >= i + Len(text)) => typed[j] = " "

UsableInputs == {input \in EngineCreateInputs : \E j \in 1..Len(input.title) : input.title[j] # " "}

C19_UpdateUnknownIdIsNoOp ==
    \A patch \in TaskPatches(now) :
        reducer(state, [type |-> "update-task",
                        payload |-> [id |-> GhostId, patch |-> patch]], "", now) = state

TaskFields ==
    {"id", "title", "description", "status", "priority", "projectId", "dueDate",
     "createdAt", "updatedAt", "completedAt", "isPinned", "tags"}

\* C20: updateTask with the id of a task gives that task the patch's fields
\* and its other fields as they were, except updatedAt, which is now even
\* when the patch has one; the task keeps its place, and every task of
\* another id, the projects, the settings and the undo slot stay as they are.
C20_UpdatePatches ==
    \A id \in IdsOf(state.tasks), patch \in TaskPatches(now) :
        LET R == reducer(state, [type |-> "update-task",
                                 payload |-> [id |-> id, patch |-> patch]], "", now)
        IN /\ Len(R.tasks) = Len(state.tasks)
           /\ \A i \in 1..Len(state.tasks) :
                IF state.tasks[i].id = id
                THEN /\ R.tasks[i].updatedAt = now
                     /\ \A f \in TaskFields \ {"updatedAt"} :
                           R.tasks[i][f] = IF f \in DOMAIN patch THEN patch[f]
                                           ELSE state.tasks[i][f]
                ELSE R.tasks[i] = state.tasks[i]
           /\ R.projects = state.projects
           /\ R.settings = state.settings
           /\ R.lastDeletedTask = state.lastDeletedTask

\* a task was renamed by a patch that also carried an updatedAt, while the
\* undo slot held a task
C20_Witness ==
    /\ last.type = "update-task"
    /\ last.held
    /\ state.lastDeletedTask # NullTask
    /\ \E i \in 1..Len(state.tasks) :
          /\ state.tasks[i].title = <<"Renamed">>
          /\ state.tasks[i].updatedAt >= SessionStart

\* the selections a bulk update may be called with
Selections(S) == SUBSET IdsOf(S.tasks) \cup {{GhostId}}

\* the tasks a bulk update to done newly completes
NewlyDone(S, ids) ==
    {i \in 1..Len(S.tasks) : S.tasks[i].id \in ids /\ S.tasks[i].status # "done"}

\* C21: bulkUpdateStatus(ids, status) sets the status and refreshes updatedAt
\* of exactly the tasks whose id is in ids and leaves the others, the order
\* and the length alone; with status done every affected task that was not
\* done gets completedAt = now, and computeAnalytics then reports
\* completedTasks increased by exactly the number of those tasks.
C21_BulkUpdateStatus ==
    \A ids \in Selections(state), status \in TaskStatus, tz \in TimeZones :
        LET R == bulkUpdateStatus(state, ids, status, now)
            before == computeAnalytics(state.tasks, state.completionHistory, now, tz)
            after == computeAnalytics(R.tasks, R.completionHistory, now, tz)
        IN /\ Len(R.tasks) = Len(state.tasks)
           /\ \A i \in 1..Len(state.tasks) :
                IF state.tasks[i].id \in ids
                THEN /\ R.tasks[i].status = status
                     /\ R.tasks[i].updatedAt = now
                     /\ R.tasks[i].id = state.tasks[i].id
                ELSE R.tasks[i] = state.tasks[i]
           /\ status = "done" =>
                /\ \A i \in NewlyDone(state, ids) : R.tasks[i].completedAt = now
                /\ after.completedTasks =
                       before.completedTasks + Cardinality(NewlyDone(state, ids))

\* C22: a second bulkUpdateStatus(ids, done) at a later clock leaves the
\* completedAt of every task as the first run left it, and set for every
\* affected task; only the updatedAt of the affected tasks moves.
C22_BulkDoneTwice ==
    \A ids \in Selections(state), later \in now..MaxClock + 1 :
        LET R1 == bulkUpdateStatus(state, ids, "done", now)
            R2 == bulkUpdateStatus(R1, ids, "done", later)
        IN /\ Len(R2.tasks) = Len(R1.tasks)
           /\ \A i \in 1..Len(R1.tasks) :
                /\ R2.tasks[i].completedAt = R1.tasks[i].completedAt
                /\ R1.tasks[i].id \in ids => R1.tasks[i].completedAt # NoTime
                /\ R2.tasks[i] =
                     [R1.tasks[i] EXCEPT !.updatedAt =
                          IF R1.tasks[i].id \in ids THEN later ELSE @]
           /\ R2.completionHistory = R1.completionHistory

\* a task completed by a bulk update of this session was bulk-updated to
\* done again at a later clock: it keeps the first stamp
C22_Witness ==
    /\ last.type = "bulk-update-status"
    /\ calls.dispatches = 2
    /\ \E i \in 1..Len(state.tasks) :
          /\ state.tasks[i].status = "done"
          /\ state.tasks[i].completedAt >= SessionStart
          /\ state.tasks[i].updatedAt > state.tasks[i].completedAt

\* C23: with a clock that never goes back, every task of every reachable
\* state has updatedAt >= createdAt, whatever create, update, bulk-status,
\* delete and restore actions were dispatched.
C23_UpdatedNotBeforeCreated ==
    \A i \in 1..Len(state.tasks) :
        state.tasks[i].updatedAt >= state.tasks[i].createdAt

\* the ids of the tasks, in order
IdSeq(tasks) == [i \in 1..Len(tasks) |-> tasks[i].id]

UniqueIds(tasks) ==
    \A i, j \in 1..Len(tasks) : tasks[i].id = tasks[j].id => i = j

\* C24: no two tasks share an id, and no action changes the id of a task:
\* not updateTask, whatever its patch, and not a delete followed by a restore.
C24_IdsUniqueAndStable ==
    /\ UniqueIds(state.tasks)
    /\ phase = "idle" => \A id \in IdsOf(state.tasks) :
          /\ \A patch \in TaskPatches(now) :
                IdSeq(updateTask(state, id, patch, now).tasks) = IdSeq(state.tasks)
          /\ IdsOf(restoreLastDeleted(deleteTask(state, id)).tasks) = IdsOf(state.tasks)

SettingsFields == {"confirmBeforeDelete", "enableSounds", "showOnboarding", "defaultProjectId"}

C26_NoActionFails ==
    /\ reducer(state, [type |-> "rename-project"], "", now) = state
    /\ phase # "crashed"

\* C27: the completionRate of computeAnalytics(T, computeCompletionHistory(T))
\* lies in [0, 1], as 0 <= completedTasks <= totalTasks, and is 0 when T is
\* empty: the quotient is never taken with a zero divisor.
C27_CompletionRate ==
    \A tz \in TimeZones :
        LET T == state.tasks
            A == computeAnalytics(T, computeCompletionHistory(T), now, tz)
        IN /\ A.completionRate.den > 0
           /\ 0 <= A.completionRate.num
           /\ A.completionRate.num <= A.completionRate.den
           /\ 0 <= A.completedTasks
           /\ A.completedTasks <= A.totalTasks
           /\ T = <<>> => A.completionRate.num = 0
           /\ T # <<>> => A.completionRate = [num |-> A.completedTasks, den |-> A.totalTasks]

\* every task was deleted: the rate is asked for an empty list
C27_Witness ==
    /\ last.type = "delete-task"
    /\ state.tasks = <<>>
    /\ state.lastDeletedTask # NullTask

\* C28: totalTasks is the number of tasks, completedTasks the number with
\* status done, activeTasks the number with status todo or in-progress;
\* archived tasks are in neither count, so the three counts add up to the
\* total.
C28_Counts ==
    \A tz \in TimeZones :
        LET T == state.tasks
            A == computeAnalytics(T, state.completionHistory, now, tz)
            With(statuses) == Cardinality({i \in 1..Len(T) : T[i].status \in statuses})
        IN /\ A.totalTasks = Len(T)
           /\ A.completedTasks = With({"done"})
           /\ A.activeTasks = With({"todo", "in-progress"})
           /\ A.completedTasks + A.activeTasks + With({"archived"}) = A.totalTasks

\* a bulk update archived one task next to one that is done or active
C28_Witness ==
    /\ last.type = "bulk-update-status"
    /\ \E i, j \in 1..Len(state.tasks) :
          /\ state.tasks[i].status = "archived"
          /\ state.tasks[j].status # "archived"

\* C29: the two ways of computing tasksCompletedToday agree in every state
\* the engine reaches: for the tasks and the completionHistory the hook
\* passes, the count of the history entry of today's key, when there is one,
\* is the number of tasks whose completedAt falls on that day.
C29_TodayCountsAgree ==
    \A tz \in TimeZones :
        LET todayKey == toDateKey(startOfDay(now, tz))
            history == state.completionHistory
        IN (\E i \in 1..Len(history) : history[i].date = todayKey) =>
              tasksCompletedToday(state.tasks, history, todayKey)
                  = CompletedOn(state.tasks, todayKey)

\* the calendar day the user's clock shows at t
LocalDay(t, tz) == DateKey(t + tz)

\* the days with at least one completion, by the history or by the tasks
DaysWithCompletion(tasks, history) ==
    {history[i].date : i \in 1..Len(history)} \cup CompletionDays(tasks)

\* the length of the run of consecutive days of `days` that ends at `day`,
\* counted from n up to the cap
RECURSIVE RunEndingAt(_, _, _)
RunEndingAt(days, day, n) ==
    IF n < StreakCap /\ day \in days THEN 1 + RunEndingAt(days, day - 1, n + 1) ELSE 0

\* C30: streakDays is the length of the longest run of consecutive calendar
\* days that ends today, each with at least one completion in the history
\* or among the tasks, at most 365: 0 when today has no completion, even if
\* yesterday has one, and 2 when exactly yesterday and today have one.
C30_StreakDays ==
    \A tz \in TimeZones :
        LET A == computeAnalytics(state.tasks, state.completionHistory, now, tz)
            days == DaysWithCompletion(state.tasks, state.completionHistory)
            today == LocalDay(now, tz)
        IN /\ A.streakDays = RunEndingAt(days, today, 0)
           /\ A.streakDays <= StreakCap
           /\ today \notin days => A.streakDays = 0
           /\ days = {today - 1, today} => A.streakDays = 2

RECURSIVE SumOfCounts(_)
SumOfCounts(history) ==
    IF history = <<>> THEN 0 ELSE Head(history).count + SumOfCounts(Tail(history))

HasCompletedAt(task) == task.completedAt # NoTime

\* C31: computeCompletionHistory(tasks) has exactly one entry per calendar
\* day on which a task has a completedAt, its count the number of those
\* tasks (so at least 1, and the counts add up to the number of tasks with a
\* completedAt), the entries in strictly ascending order of day; tasks
\* without completedAt contribute nothing.
C31_HistoryOfTasks ==
    LET T == state.tasks
        H == computeCompletionHistory(T)
        completed == {i \in 1..Len(T) : HasCompletedAt(T[i])}
    IN /\ {H[k].date : k \in 1..Len(H)} = {DateKey(T[i].completedAt) : i \in completed}
       /\ \A k \in 1..Len(H) :
             /\ H[k].count =
                  Cardinality({i \in completed : DateKey(T[i].completedAt) = H[k].date})
             /\ H[k].count >= 1
       /\ \A k \in 1..(Len(H) - 1) : H[k].date < H[k + 1].date
       /\ SumOfCounts(H) = Cardinality(completed)
       /\ H = computeCompletionHistory(SelectSeq(T, HasCompletedAt))

\* a task was completed today next to one completed the day before and one
\* never completed: two entries, the older first
C31_Witness ==
    /\ last.type = "update-task"
    /\ Len(computeCompletionHistory(state.tasks)) = 2
    /\ \E i \in 1..Len(state.tasks) : state.tasks[i].completedAt = NoTime

\* an array element of which loadTodos cannot read a property
Unnormalizable(item) == item = JNull

\* the stored text parses to something loadTodos cannot take as a todo list
NotATodoList(raw) ==
    /\ raw.kind = "json"
    /\ \/ raw.value.t # "array"
       \/ \E i \in 1..Len(raw.value.a) : Unnormalizable(raw.value.a[i])

\* C32: loadTodos never throws; it returns no todo and no error when the
\* key is missing, and no todo and an error message when the stored data
\* cannot be parsed or is not an array, an array with an element that
\* cannot be normalized included.
C32_LoadTodos ==
    phase # "boot" =>
        /\ phase = "ready"
        /\ ~last.held =>
            /\ storage = NoItem => state = [todos |-> <<>>, storageError |-> Null]
            /\ \/ storage.kind \in {"empty", "garbage"}
               \/ NotATodoList(storage)
               => state.todos = <<>> /\ state.storageError # Null

\* C32, amended: loadTodos never throws; it returns no todo and no error
\* when the key is missing or holds the empty string, and no todo and an
\* error message when the stored text is not empty and cannot be parsed, or
\* is not an array, or is an array with an element that cannot be normalized.
C32_LoadTodosAmended ==
    phase # "boot" =>
        /\ phase = "ready"
        /\ ~last.held =>
            /\ storage \in {NoItem, EmptyText} =>
                  state = [todos |-> <<>>, storageError |-> Null]
            /\ storage = NotJson \/ NotATodoList(storage)
               => state.todos = <<>> /\ state.storageError # Null

\* the app booted on an array that holds null next to a todo: no todo is
\* kept, and the error of the catch clause is shown
C32_Witness ==
    /\ phase = "ready"
    /\ last.type = "load-todos"
    /\ ~last.held
    /\ storage.kind = "json"
    /\ storage.value.t = "array"
    /\ Len(storage.value.a) = 2
    /\ \E i \in 1..2 : storage.value.a[i].t = "object"
    /\ state = [todos |-> <<>>, storageError |-> CorruptedError]

\* C33: deleteTask with an id of no task is a no-op: the tasks stay as they
\* are and the undo slot keeps the task it held, so that a following
\* restoreLastDeleted still restores the task deleted before.
C33_DeleteUnknownIdIsNoOp ==
    phase = "idle" =>
        LET R == reducer(state, [type |-> "delete-task",
                                 payload |-> [id |-> GhostId]], "", now)
        IN /\ R.tasks = state.tasks
           /\ R.lastDeletedTask = state.lastDeletedTask
           /\ restoreLastDeleted(R).tasks = restoreLastDeleted(state).tasks

\* the actions that are neither delete-task, restore-last-deleted nor hydrate
OtherActions(S, t) ==
    {[type |-> "create-task", payload |-> input] : input \in CreateTaskInputs}
        \cup {[type |-> "update-task", payload |-> [id |-> id, patch |-> patch]] :
                 id \in IdsOf(S.tasks) \cup IdsOf(S.lastDeletedTask) \cup {GhostId},
                 patch \in TaskPatches(t)}
        \cup {[type |-> "bulk-update-status", payload |-> [ids |-> ids, status |-> status]] :
                 ids \in SUBSET (IdsOf(S.tasks) \cup IdsOf(S.lastDeletedTask)),
                 status \in BulkStatuses}
        \cup {[type |-> "update-settings", payload |-> patch] : patch \in SettingsPatches}
        \cup {[type |-> "create-project",
               payload |-> [name |-> <<" ", "Work">>, color |-> "violet"]]}

\* C34: only deleteTask, restoreLastDeleted and hydrate change the undo
\* slot: createTask, updateTask, bulkUpdateStatus, updateSettings and
\* createProject leave the snapshot it holds as it was at delete time, also
\* when they are given the id of the deleted task.
C34_SlotFrame ==
    \A action \in OtherActions(state, now), u \in uuid(state) :
        reducer(state, action, u, now).lastDeletedTask = state.lastDeletedTask

\* updateTask was called with the id of the deleted task while the slot
\* held it, and the slot holds it still
C34_Witness ==
    /\ last.type = "update-task"
    /\ last.held
    /\ state.lastDeletedTask # NullTask
    /\ calls.dispatches = 2

\* C35: at session start loadState reads the store before the first
\* saveState of the session writes to it: the payload of the hydrate action
\* is what loadState makes of the blob the previous session left, never of a
\* blob the mount of this session wrote.
C35_LoadBeforeFirstSave ==
    /\ lastWrite # "none" => calls.loads >= 1
    /\ phase = "mount-persist" =>
          /\ lastWrite = "none"
          /\ Len(queued) = 1
          /\ queued[1].type = "hydrate"
          /\ \E readOk \in BOOLEAN : queued[1].payload = loadState(storage, readOk, now)

\* the session was hydrated with the two stored tasks although the persist
\* effect of the mount had written to the store before the hydrate action
\* was reduced
C35_Witness ==
    /\ phase = "idle"
    /\ calls.hydrates = 1
    /\ lastWrite = "ok"
    /\ state.tasks = <<OldTodo, OldDone>>

\* C36: when the store holds a valid blob of a previous session, it never
\* holds the first-run default state in its place during the session: every
\* write serializes a state made from that blob by hydrate and user actions.
C36_NeverTheDefaultState ==
    \A t \in SessionStart..now : storage # Stringify(initializer(t))

\* C37: a delete lasts and its undo does not: after deleteTask, a save that
\* succeeded and a new session (load, then hydrate), the deleted task is not
\* among the tasks, the undo slot is empty and restoreLastDeleted changes
\* nothing.  (The new session is taken where its hydrate effect has read
\* the store; a read that throws yields the default state instead.)
C37_DeleteSurvivesReload ==
    (/\ phase = "mount-persist"
     /\ last.type = "reload"
     /\ last.after = "delete-task"
     /\ last.saved
     /\ last.slot # NullTask
     /\ queued[1].payload = loadState(storage, TRUE, now)) =>
        LET hydrated == reducer(state, queued[1], "", now)
        IN /\ last.slot[1].id \notin IdsOf(hydrated.tasks)
           /\ hydrated.lastDeletedTask = NullTask
           /\ reducer(hydrated, [type |-> "restore-last-deleted"], "", now) = hydrated

\* a session deleted a stored task and saved; the next session has read
\* the store and is about to render the hydrate action
C37_Witness ==
    /\ phase = "mount-persist"
    /\ queued[1].payload = loadState(storage, TRUE, now)
    /\ last.type = "reload"
    /\ last.after = "delete-task"
    /\ last.saved
    /\ last.slot # NullTask
    /\ last.slot[1].id \in {"a", "b"}
    /\ queued[1].payload.tasks # <<>>

NewestFirst(tasks) ==
    \A i, j \in 1..Len(tasks) : i < j => tasks[i].createdAt >= tasks[j].createdAt

\* C38: from a task list ordered newest first by createdAt, every sequence
\* of actions keeps state.tasks ordered newest first, a delete followed by
\* restoreLastDeleted of a task that was not the newest included.
C38_NewestFirst == NewestFirst(state.tasks)

\* C39: a completion made now counts as today: right after a task was
\* marked done at the clock value now, computeAnalytics at that instant
\* reports tasksCompletedToday >= 1 and streakDays >= 1, whatever the
\* offset between the local calendar day and the day key of the timestamp.
C39_CompletedNowCountsToday ==
    (/\ last.type = "bulk-update-status"
     /\ \E i \in 1..Len(state.tasks) :
           state.tasks[i].status = "done" /\ state.tasks[i].completedAt = now) =>
        \A tz \in TimeZones :
            LET A == computeAnalytics(state.tasks, state.completionHistory, now, tz)
            IN A.tasksCompletedToday >= 1 /\ A.streakDays >= 1

====
